---- MODULE Spec2Model ----
(***************************************************************************)
(* A model of src/app.js, the RackML to SVG compiler: parseRackML,         *)
(* buildSVG, drawRack and the page's event handlers.                       *)
(*                                                                         *)
(* Representation of JavaScript values                                     *)
(*   string whose characters matter : a sequence of UTF-16 code units      *)
(*                                    (<<52, 50>> is "42")                 *)
(*   string only tested or copied   : a TLA+ string                        *)
(*   number                         : [nan, twice], twice the value, so    *)
(*                                    that the halves app.js computes      *)
(*                                    (x / 2) stay exact                   *)
(*   element                        : a record with tagName, textContent,  *)
(*                                    children and one field per attribute *)
(*                                    that is present (getAttribute gives  *)
(*                                    null for a field that is missing)    *)
(***************************************************************************)
EXTENDS Integers, Sequences, FiniteSets, TLC

VARIABLES
  \* the page (builder, exportSVG, exportPNG and the listeners)
  page, editorValue, preview, trace, outcome, logged, image, download,
  \* one call of buildSVG
  racks, parameters, result,
  \* one call of drawRack, iteration by iteration
  rack, params, nodes, idx, currentNode, dom, pc

pageVars  == <<page, editorValue, preview, trace, outcome, logged, image, download>>
buildVars == <<racks, parameters, result>>
rackVars  == <<rack, params, nodes, idx, currentNode, dom, pc>>
vars      == <<pageVars, buildVars, rackVars>>

----------------------------------------------------------------------------
(* Program constants                                                       *)

DEFAULT_RACK_HEIGHT_UNITS == 42

DEFAULT_RACK_SPACING_POINTS == 25

DEFAULT_RACK_UNIT_POINTS == 25

DEFAULT_RACK_WIDTH_POINTS == 300

DEFAULT_SVG_MARGIN == 25

\* The own properties of the DEFAULT_COLORS object literal.
DEFAULT_COLORS_OWN ==
  [ups |-> "#38A169", pdu |-> "#38A169", firewall |-> "#F56565",
   switch |-> "#FC8181", blank |-> "#E2E8F0", patch |-> "#FAF089",
   cables |-> "#F6AD55", server |-> "#63B3ED", san |-> "#4FD1C5"]

\* An object literal inherits from Object.prototype: these names resolve on
\* DEFAULT_COLORS too, to functions (written here as the text they become when
\* used as an attribute value).
OBJECT_PROTOTYPE ==
  [constructor |-> "function Object() { [native code] }",
   toString    |-> "function toString() { [native code] }",
   valueOf     |-> "function valueOf() { [native code] }"]

\* DEFAULT_COLORS[key]: the own property, else the inherited one, else
\* undefined (found FALSE).
DEFAULT_COLORS(key) ==
  IF key \in DOMAIN DEFAULT_COLORS_OWN
    THEN [found |-> TRUE, value |-> DEFAULT_COLORS_OWN[key]]
    ELSE IF key \in DOMAIN OBJECT_PROTOTYPE
      THEN [found |-> TRUE, value |-> OBJECT_PROTOTYPE[key]]
      ELSE [found |-> FALSE, value |-> ""]

----------------------------------------------------------------------------
(* JavaScript numbers and strings                                          *)

Num(v) == [nan |-> FALSE, twice |-> 2 * v]

NaN == [nan |-> TRUE, twice |-> 0]

\* a * b, for a and b whole numbers or NaN
JsMul(a, b) ==
  IF a.nan \/ b.nan THEN NaN
  ELSE [nan |-> FALSE, twice |-> (a.twice * b.twice) \div 2]

JsAdd(a, b) ==
  IF a.nan \/ b.nan THEN NaN ELSE [nan |-> FALSE, twice |-> a.twice + b.twice]

JsSub(a, b) ==
  IF a.nan \/ b.nan THEN NaN ELSE [nan |-> FALSE, twice |-> a.twice - b.twice]

\* a / 2, for a whole number or NaN
JsHalf(a) ==
  IF a.nan THEN NaN ELSE [nan |-> FALSE, twice |-> a.twice \div 2]

\* a > b on numbers: false when either is NaN
JsNumGt(a, b) == ~a.nan /\ ~b.nan /\ a.twice > b.twice

IsWhiteSpace(c) == c \in {9, 10, 13, 32}

RECURSIVE NatToString(_)
NatToString(k) ==
  IF k < 10 THEN <<48 + k>> ELSE NatToString(k \div 10) \o <<48 + (k % 10)>>

\* Number::toString, as setAttribute applies it to a number
NumberToString(n) ==
  IF n.nan THEN <<78, 97, 78>>
  ELSE LET m == IF n.twice < 0 THEN -n.twice ELSE n.twice
       IN  (IF n.twice < 0 THEN <<45>> ELSE <<>>)
           \o NatToString(m \div 2)
           \o (IF m % 2 = 1 THEN <<46, 53>> ELSE <<>>)

RECURSIVE TrimLeft(_)
TrimLeft(s) ==
  IF s # <<>> /\ IsWhiteSpace(Head(s)) THEN TrimLeft(Tail(s)) ELSE s

RECURSIVE TrimRight(_)
TrimRight(s) ==
  IF s # <<>> /\ IsWhiteSpace(s[Len(s)])
    THEN TrimRight(SubSeq(s, 1, Len(s) - 1)) ELSE s

\* the value of a digit in parseInt's radix, 99 for any other character
DigitValue(c) ==
  IF c \in 48..57 THEN c - 48
  ELSE IF c \in 97..122 THEN c - 87
  ELSE IF c \in 65..90 THEN c - 55
  ELSE 99

\* the number of leading characters of s that are digits of the radix
RECURSIVE DigitPrefixLen(_, _)
DigitPrefixLen(s, radix) ==
  IF s # <<>> /\ DigitValue(Head(s)) < radix
    THEN 1 + DigitPrefixLen(Tail(s), radix) ELSE 0

RECURSIVE DigitsToNat(_, _)
DigitsToNat(s, radix) ==
  IF s = <<>> THEN 0
  ELSE DigitsToNat(SubSeq(s, 1, Len(s) - 1), radix) * radix + DigitValue(s[Len(s)])

\* parseInt(string) with no radix argument: leading white space is skipped,
\* a sign is read, "0x" selects radix 16, the longest prefix of digits is the
\* value and whatever follows is ignored; NaN when there is no digit.
parseIntString(str) ==
  LET s0     == TrimLeft(str)
      signed == s0 # <<>> /\ Head(s0) \in {43, 45}
      neg    == s0 # <<>> /\ Head(s0) = 45
      s1     == IF signed THEN Tail(s0) ELSE s0
      hex    == Len(s1) >= 2 /\ s1[1] = 48 /\ s1[2] \in {88, 120}
      radix  == IF hex THEN 16 ELSE 10
      s2     == IF hex THEN SubSeq(s1, 3, Len(s1)) ELSE s1
      n      == DigitPrefixLen(s2, radix)
      v      == DigitsToNat(SubSeq(s2, 1, n), radix)
  IN  IF n = 0 THEN NaN ELSE Num(IF neg THEN -v ELSE v)

\* ToNumber(string), as * and > apply it: white space is trimmed on both sides,
\* the empty string is 0, an optionally signed run of decimal digits is its
\* value and anything else is NaN.  (The model's strings hold no ".", "e" or
\* "0x", the other numeric literals.)
StringToNumber(str) ==
  LET s0     == TrimRight(TrimLeft(str))
      signed == s0 # <<>> /\ Head(s0) \in {43, 45}
      neg    == s0 # <<>> /\ Head(s0) = 45
      s1     == IF signed THEN Tail(s0) ELSE s0
      n      == DigitPrefixLen(s1, 10)
  IN  IF s0 = <<>> THEN Num(0)
      ELSE IF n = 0 \/ n # Len(s1) THEN NaN
      ELSE Num(IF neg THEN -DigitsToNat(s1, 10) ELSE DigitsToNat(s1, 10))

\* a < b on strings: code unit by code unit, a proper prefix being smaller
RECURSIVE StringLt(_, _)
StringLt(a, b) ==
  IF b = <<>> THEN FALSE
  ELSE IF a = <<>> THEN TRUE
  ELSE IF Head(a) # Head(b) THEN Head(a) < Head(b)
  ELSE StringLt(Tail(a), Tail(b))

----------------------------------------------------------------------------
(* Elements                                                                *)

hasAttribute(node, name) == name \in DOMAIN node

\* getAttribute(name) is truthy: the attribute is present and not empty
\* (a value kept as a TLA+ string: name, color, href)
TruthyText(node, name) == hasAttribute(node, name) /\ node[name] # ""

\* the same for a value kept as code units (height)
TruthyChars(node, name) == hasAttribute(node, name) /\ node[name] # <<>>

\* parseInt(node.getAttribute(name)): null is read as the string "null"
parseIntAttribute(node, name) ==
  IF hasAttribute(node, name) THEN parseIntString(node[name]) ELSE NaN

\* createSVGElement(type, props, ...children); a string child becomes a text
\* node.  setAttribute turns every value into a string: the callers below
\* write that conversion (NumberToString) where the value is a number.
createSVGElement(type, props, children) ==
  [type |-> type, attrs |-> props, children |-> children]

\* createSVGElement(type) and createSVGElement(type, {}, ...children)
createSVGElementBare(type, children) ==
  [type |-> type, children |-> children]

Reverse(s) == [i \in 1..Len(s) |-> s[Len(s) + 1 - i]]

\* the object {} the handlers pass as parameters
NoParameters == [k \in {} |-> <<>>]

----------------------------------------------------------------------------
(* drawRack                                                                *)

\* lines 156-178: the group's children before the loop, the name label (when
\* the name is not empty) and the rack body
drawRackHead(rk, p) ==
  (IF TruthyText(rk, "name")
     THEN << createSVGElement("text",
               [x |-> NumberToString(JsHalf(p.rackWidth)),
                y |-> NumberToString(JsHalf(p.margin)),
                textAnchor |-> "middle",
                dominantBaseline |-> "central",
                fontFamily |-> "sans-serif"],
               <<rk.name>>) >>
     ELSE <<>>)
  \o << createSVGElement("rect",
          [x |-> NumberToString(Num(0)),
           y |-> NumberToString(p.margin),
           width |-> NumberToString(p.rackWidth),
           height |-> NumberToString(JsMul(StringToNumber(p.rackHeight), p.unitHeight)),
           fill |-> "#4A5568",
           stroke |-> "black"],
          <<>>) >>

\* rackBottomY without the margin
rackBottomY_NoMargin(p) ==
  JsMul(StringToNumber(p.rackHeight), p.unitHeight)

\* line 180
rackBottomY(p) ==
  JsAdd(JsMul(StringToNumber(p.rackHeight), p.unitHeight), p.margin)

\* at used as it is written, 1-based
nodeAt_OneBased(node, cursor) ==
  LET attrAt == parseIntAttribute(node, "at")
  IN  IF attrAt.nan THEN cursor ELSE attrAt

\* lines 184-185: the offset of a node, given the cursor
nodeAt(node, cursor) ==
  LET attrAt == parseIntAttribute(node, "at")
  IN  IF attrAt.nan THEN cursor ELSE JsSub(attrAt, Num(1))

\* lines 187-188
nodeHeight(node) ==
  LET attrHeight == parseIntAttribute(node, "height")
  IN  IF attrHeight.nan THEN Num(1) ELSE attrHeight

\* lines 195-199
nodeColor(node) ==
  LET byTag == DEFAULT_COLORS(node.tagName)
      color == IF byTag.found /\ byTag.value # "" THEN byTag.value ELSE "white"
  IN  IF TruthyText(node, "color") THEN node.color ELSE color

\* lines 201-208
nodeRect(node, p, at, height) ==
  createSVGElement("rect",
    [x |-> NumberToString(Num(0)),
     y |-> NumberToString(JsSub(rackBottomY(p), JsMul(JsAdd(at, height), p.unitHeight))),
     width |-> NumberToString(p.rackWidth),
     height |-> NumberToString(JsMul(height, p.unitHeight)),
     fill |-> nodeColor(node),
     stroke |-> "black"],
    <<>>)

\* lines 220-227
nodeLabel(node, p, at, height) ==
  createSVGElement("text",
    [x |-> NumberToString(JsHalf(p.rackWidth)),
     y |-> NumberToString(
             JsAdd(JsSub(rackBottomY(p), JsMul(JsAdd(at, height), p.unitHeight)),
                   JsHalf(JsMul(height, p.unitHeight)))),
     textAnchor |-> "middle",
     dominantBaseline |-> "central",
     fontFamily |-> "sans-serif"],
    <<node.textContent>>)

\* lines 210-229: what dom.appendChild(container) adds to the group: an <a>
\* holding the rectangle and the label, or (a document fragment) the rectangle
\* and the label themselves
nodeContainer(node, p, at, height) ==
  IF TruthyText(node, "href")
    THEN << [type |-> "a", attrs |-> [href |-> node.href],
             children |-> <<nodeRect(node, p, at, height),
                            nodeLabel(node, p, at, height)>>] >>
    ELSE <<nodeRect(node, p, at, height), nodeLabel(node, p, at, height)>>

\* a gap that leaves the cursor where it was
drawRackIteration_GapKeepsCursor(node, p, st) ==
  LET at     == nodeAt(node, st.cursor)
      height == nodeHeight(node)
  IN  IF node.tagName = "gap"
        THEN st
        ELSE [cursor |-> JsAdd(at, height),
              dom    |-> st.dom \o nodeContainer(node, p, at, height)]

\* a cursor that advances by one unit whatever the height
drawRackIteration_AdvanceByOne(node, p, st) ==
  LET at     == nodeAt(node, st.cursor)
      height == nodeHeight(node)
  IN  IF node.tagName = "gap"
        THEN [cursor |-> JsAdd(at, Num(1)), dom |-> st.dom]
        ELSE [cursor |-> JsAdd(at, Num(1)),
              dom    |-> st.dom \o nodeContainer(node, p, at, height)]

\* lines 183-232: one iteration of the loop, from the state st = [cursor, dom]
drawRackIteration(node, p, st) ==
  LET at     == nodeAt(node, st.cursor)
      height == nodeHeight(node)
  IN  IF node.tagName = "gap"
        THEN [cursor |-> JsAdd(at, height), dom |-> st.dom]
        ELSE [cursor |-> JsAdd(at, height),
              dom    |-> st.dom \o nodeContainer(node, p, at, height)]

RECURSIVE drawRackLoop(_, _, _)
drawRackLoop(ns, p, st) ==
  IF ns = <<>> THEN st
  ELSE drawRackLoop(Tail(ns), p, drawRackIteration(Head(ns), p, st))

\* lines 153-235: the <g> element drawRack returns
drawRack(rk, p) ==
  createSVGElementBare("g",
    drawRackLoop(Reverse(rk.children), p,
                 [cursor |-> Num(0), dom |-> drawRackHead(rk, p)]).dom)

----------------------------------------------------------------------------
(* buildSVG                                                                *)

\* lines 77-93: a parameter, or its default when it is undefined
parameterOr(prm, name, default) ==
  IF hasAttribute(prm, name) THEN prm[name] ELSE Num(default)

\* lines 97 and 126: rack.getAttribute('height') || DEFAULT_RACK_HEIGHT.  No
\* DEFAULT_RACK_HEIGHT is declared anywhere (the constant of line 2 is
\* DEFAULT_RACK_HEIGHT_UNITS): reading it throws a ReferenceError, which
\* happens when the attribute is absent or empty.
rackHeightOf(rk) ==
  IF TruthyChars(rk, "height")
    THEN [threw |-> "", value |-> rk.height]
    ELSE [threw |-> "ReferenceError: DEFAULT_RACK_HEIGHT is not defined",
          value |-> <<>>]

\* maxRackHeight holds the number 0 at first and a height string afterwards
NumberValue(n) == [isString |-> FALSE, n |-> n, s |-> <<>>]

StringValue(s) == [isString |-> TRUE, n |-> NaN, s |-> s]

ToNumber(v) == IF v.isString THEN StringToNumber(v.s) ELSE v.n

\* line 98: rackHeight > maxRackHeight, rackHeight a string: two strings are
\* compared as strings, a string and a number as numbers
JsGt(str, v) ==
  IF v.isString THEN StringLt(v.s, str)
  ELSE JsNumGt(StringToNumber(str), v.n)

\* lines 95-101: the loop, from the maximum so far
RECURSIVE maxRackHeightLoop(_, _)
maxRackHeightLoop(rs, max) ==
  IF rs = <<>> THEN [threw |-> "", value |-> max]
  ELSE LET rackHeight == rackHeightOf(Head(rs))
       IN  IF rackHeight.threw # "" THEN [threw |-> rackHeight.threw, value |-> max]
           ELSE maxRackHeightLoop(Tail(rs),
                  IF JsGt(rackHeight.value, max)
                    THEN StringValue(rackHeight.value) ELSE max)

\* rackCount * rackSpacing in place of (rackCount - 1) * rackSpacing
svgWidth_SpacingPerRack(rackCount, rackWidth, rackSpacing, margin) ==
  JsAdd(JsAdd(JsMul(Num(2), margin), JsMul(Num(rackCount), rackWidth)),
        JsMul(Num(rackCount), rackSpacing))

\* line 105
svgWidth(rackCount, rackWidth, rackSpacing, margin) ==
  JsAdd(JsAdd(JsMul(Num(2), margin), JsMul(Num(rackCount), rackWidth)),
        JsMul(Num(rackCount - 1), rackSpacing))

\* line 104
svgHeight(margin, unitHeight, maxRackHeight) ==
  JsAdd(JsMul(Num(2), margin), JsMul(unitHeight, ToNumber(maxRackHeight)))

\* lines 124-140: the groups of the racks, from xOffset on
RECURSIVE rackGroups(_, _, _, _, _, _)
rackGroups(rs, xOffset, unitHeight, rackWidth, rackSpacing, margin) ==
  IF rs = <<>> THEN <<>>
  ELSE LET g == drawRack(Head(rs),
                  [rackWidth |-> rackWidth, rackHeight |-> rackHeightOf(Head(rs)).value,
                   unitHeight |-> unitHeight, margin |-> margin])
       IN  << [type |-> "g",
               attrs |-> [transform |-> [translateX |-> NumberToString(xOffset),
                                         translateY |-> <<48>>]],
               children |-> g.children] >>
           \o rackGroups(Tail(rs), JsAdd(xOffset, JsAdd(rackWidth, rackSpacing)),
                         unitHeight, rackWidth, rackSpacing, margin)

\* lines 76-143: what a call ends with, an error thrown or the <svg> returned
buildSVG(rs, prm) ==
  LET unitHeight  == parameterOr(prm, "unitHeight", DEFAULT_RACK_UNIT_POINTS)
      rackWidth   == parameterOr(prm, "rackWidth", DEFAULT_RACK_WIDTH_POINTS)
      rackSpacing == parameterOr(prm, "rackSpacing", DEFAULT_RACK_SPACING_POINTS)
      margin      == parameterOr(prm, "margin", DEFAULT_SVG_MARGIN)
      max         == maxRackHeightLoop(rs.children, NumberValue(Num(0)))
      rackCount   == Len(rs.children)
  IN  IF max.threw # "" THEN [called |-> TRUE, threw |-> max.threw]
      ELSE [called |-> TRUE,
            threw  |-> "",
            svg    |->
              createSVGElement("svg",
                [baseProfile |-> "full",
                 height |-> NumberToString(svgHeight(margin, unitHeight, max.value)),
                 version |-> "1.1",
                 width |-> NumberToString(svgWidth(rackCount, rackWidth, rackSpacing, margin)),
                 xmlns |-> "http://www.w3.org/2000/svg",
                 xmlnsXlink |-> "http://www.w3.org/1999/xlink"],
                << createSVGElementBare("style", <<"a:hover { filter: saturate(4); }">>) >>
                \o rackGroups(rs.children, margin, unitHeight, rackWidth, rackSpacing, margin))]

----------------------------------------------------------------------------
(* parseRackML and the compile chain of the handlers                       *)

\* parser.parseFromString(rackml, 'application/xml'): the document of a
\* well-formed text, and for any other text a document whose root element is
\* <parsererror>
parseFromString(rackml) ==
  IF rackml.wellFormed
    THEN [documentElement |-> rackml.root]
    ELSE [documentElement |->
            [tagName |-> "parsererror", textContent |-> "XML Parsing Error",
             children |-> << [tagName |-> "sourcetext", textContent |-> "",
                              children |-> <<>>] >>]]

\* parseRackML without the test of line 61
parseRackML_NoCheck(rackml) ==
  [threw |-> "", value |-> parseFromString(rackml).documentElement]

\* lines 57-66: the root element, or the error thrown
parseRackML(rackml) ==
  LET domDoc == parseFromString(rackml)
  IN  IF domDoc.documentElement.tagName = "parsererror"
        THEN [threw |-> "Failed to parse input"]
        ELSE [threw |-> "", value |-> domDoc.documentElement]

\* the calls of drawRack a buildSVG that returns has made: one per rack
drawRackCalls(rs) == [i \in 1..Len(rs.children) |-> "drawRack"]

\* what a compile ends with once buildSVG has ended with built
compileBuilt(root, built) ==
  IF built.threw # ""
    THEN [threw |-> built.threw, calls |-> <<"parseRackML", "buildSVG">>]
    ELSE [threw |-> "", svg |-> built.svg,
          calls |-> <<"parseRackML", "buildSVG">> \o drawRackCalls(root)]

\* what a compile ends with once parseRackML has ended with parsed
compileParsed(parsed) ==
  IF parsed.threw # ""
    THEN [threw |-> parsed.threw, calls |-> <<"parseRackML">>]
    ELSE compileBuilt(parsed.value, buildSVG(parsed.value, NoParameters))

\* lines 242-243, 264-265, 284-285: parseRackML(raw, {}) then buildSVG(dom, {});
\* the error thrown ("" when none), the svg and the functions entered
compile(raw) == compileParsed(parseRackML(raw))

----------------------------------------------------------------------------
(* Inputs: the bounded sets the specifications draw from                   *)

MaxSlots == 3

SeqsUpTo(S, n) == UNION {[1..k -> S] : k \in 0..n}

\* an element with the attributes of a (a record of the attributes present)
Element(tag, text, kids, a) ==
  [tagName |-> tag, textContent |-> text, children |-> kids] @@ a

NoAttribute == [k \in {} |-> <<>>]

\* height="1", height="2", at="5" and the like, as code units
AttrChars(name, values) == {[k \in {name} |-> v] : v \in values}

AttrText(name, values) == {[k \in {name} |-> v] : v \in values}

\* slots with a plain decimal height, and an at that is absent or decimal
PlacementSlots ==
  {Element(t, "label", <<>>, a @@ h) :
     t \in {"gap", "server"},
     a \in {NoAttribute} \cup AttrChars("at", {<<53>>}),
     h \in AttrChars("height", {<<49>>, <<50>>})}

PlacementRacks ==
  {Element("rack", "", kids, n) :
     kids \in SeqsUpTo(PlacementSlots, MaxSlots),
     n \in {NoAttribute} \cup AttrText("name", {"Rack A"})}

\* the params buildSVG hands to drawRack: numbers, and rackHeight the string
\* read from the rack's height attribute
PlacementParams ==
  [rackWidth : {Num(300)}, rackHeight : {<<49>>, <<52, 50>>},
   unitHeight : {Num(25), Num(10)}, margin : {Num(25), Num(7)}]

MaxColorSlots == 1

\* devices of every known kind, of an unknown kind, of kinds named like the
\* properties every object inherits, and gaps; with and without color and href
ColorSlots ==
  {Element(t, "label", <<>>, c @@ l) :
     t \in DOMAIN DEFAULT_COLORS_OWN \cup {"widget", "constructor", "gap"},
     c \in {NoAttribute} \cup AttrText("color", {"", "#000000"}),
     l \in {NoAttribute} \cup AttrText("href", {"http://example.com/"})}

ColorRacks ==
  {Element("rack", "", kids, n) :
     kids \in SeqsUpTo(ColorSlots, MaxColorSlots),
     n \in {NoAttribute} \cup AttrText("name", {"", "Rack A"})}

DefaultParams ==
  [rackWidth : {Num(DEFAULT_RACK_WIDTH_POINTS)}, rackHeight : {<<52, 50>>},
   unitHeight : {Num(DEFAULT_RACK_UNIT_POINTS)}, margin : {Num(DEFAULT_SVG_MARGIN)}]

MaxAttrSlots == 2

\* slots whose at and height are absent, empty, zero, negative, a number
\* followed by a letter, or no number at all
AttrSlots ==
  {Element(t, "label", <<>>, a @@ h) :
     t \in {"gap", "server"},
     a \in {NoAttribute} \cup AttrChars("at", {<<48>>, <<50, 97>>, <<120>>}),
     h \in {NoAttribute} \cup AttrChars("height", {<<>>, <<48>>, <<45, 50>>, <<50, 97>>})}

AttrRacks ==
  {Element("rack", "", kids, NoAttribute) : kids \in SeqsUpTo(AttrSlots, MaxAttrSlots)}

MaxRacks == 2

\* racks whose height is absent, empty, a number of one, two or three digits,
\* or no number; empty or holding one device
BuildRacks ==
  {Element("rack", "", kids, h) :
     kids \in {<<>>, <<Element("server", "label", <<>>, NoAttribute)>>},
     h \in {NoAttribute}
           \cup AttrChars("height", {<<>>, <<57>>, <<52, 50>>, <<49, 48, 48>>, <<97, 98, 99>>})}

\* the <racks> documents buildSVG is given
RackSets ==
  {Element("racks", "", kids, NoAttribute) : kids \in SeqsUpTo(BuildRacks, MaxRacks)}

\* the parameters objects: each entry supplied or left undefined
ParameterSets ==
  {u @@ w @@ sp @@ m :
     u  \in {NoAttribute} \cup {[k \in {"unitHeight"} |-> Num(10)]},
     w  \in {NoAttribute} \cup {[k \in {"rackWidth"} |-> Num(100)]},
     sp \in {NoAttribute} \cup {[k \in {"rackSpacing"} |-> Num(5)]},
     m  \in {NoAttribute} \cup {[k \in {"margin"} |-> Num(7)]}}

MaxPageRacks == 2

\* the racks of the texts typed into the editor: with a height and a linked
\* device, or without a height
PageRacks ==
  { Element("rack", "", <<Element("server", "web", <<>>, [href |-> "http://example.com/"])>>,
            [height |-> <<52, 50>>, name |-> "A"]),
    Element("rack", "", <<>>, [name |-> "B"]) }

\* the editor's texts: one that is not well-formed, and the well-formed texts
\* of the roots <racks>...</racks> and <parsererror/>
EditorTexts ==
  { [wellFormed |-> FALSE, source |-> "<racks><rack"] }
  \cup { [wellFormed |-> TRUE, root |-> Element("racks", "", kids, NoAttribute)] :
           kids \in SeqsUpTo(PageRacks, MaxPageRacks) }
  \cup { [wellFormed |-> TRUE, root |-> Element("parsererror", "", <<>>, NoAttribute)] }

----------------------------------------------------------------------------
(* drawRack, one loop iteration per step                                   *)

PageIdle ==
  /\ page = "unloaded"
  /\ editorValue = [wellFormed |-> FALSE, source |-> ""]
  /\ preview = <<>>
  /\ trace = <<>>
  /\ outcome = [raised |-> "", uncaught |-> ""]
  /\ logged = "none"
  /\ image = [loading |-> FALSE]
  /\ download = [filename |-> ""]

BuildIdle == racks = <<>> /\ parameters = <<>> /\ result = [called |-> FALSE]

RackIdle ==
  /\ rack = <<>> /\ params = <<>> /\ nodes = <<>> /\ idx = 0
  /\ currentNode = Num(0) /\ dom = <<>> /\ pc = "idle"

\* lines 153-182: drawRack(rk, p) has reached its loop
drawRackEntry(rk, p) ==
  /\ rack = rk
  /\ params = p
  /\ nodes = Reverse(rk.children)
  /\ idx = 0
  /\ currentNode = Num(0)
  /\ dom = drawRackHead(rk, p)
  /\ pc = "loop"

InitRack ==
  /\ PageIdle /\ BuildIdle
  /\ \E rk \in PlacementRacks, p \in PlacementParams : drawRackEntry(rk, p)

\* the loop body for the next node
LoopBody ==
  LET st == drawRackIteration(nodes[idx + 1], params,
                              [cursor |-> currentNode, dom |-> dom])
  IN  /\ currentNode' = st.cursor
      /\ dom' = st.dom
      /\ idx' = idx + 1
      /\ UNCHANGED <<rack, params, nodes, pc, pageVars, buildVars>>

\* lines 190-193: the node is a gap
DrawGap ==
  /\ pc = "loop" /\ idx < Len(nodes)
  /\ nodes[idx + 1].tagName = "gap"
  /\ LoopBody

\* lines 195-231: the node is a device
DrawDevice ==
  /\ pc = "loop" /\ idx < Len(nodes)
  /\ nodes[idx + 1].tagName # "gap"
  /\ LoopBody

\* line 234
DrawReturn ==
  /\ pc = "loop" /\ idx = Len(nodes)
  /\ pc' = "returned"
  /\ UNCHANGED <<rack, params, nodes, idx, currentNode, dom, pageVars, buildVars>>

NextRack == DrawGap \/ DrawDevice \/ DrawReturn

SpecRack == InitRack /\ [][NextRack]_vars

InitColor ==
  /\ PageIdle /\ BuildIdle
  /\ \E rk \in ColorRacks, p \in DefaultParams : drawRackEntry(rk, p)

SpecColor == InitColor /\ [][NextRack]_vars

InitAttr ==
  /\ PageIdle /\ BuildIdle
  /\ \E rk \in AttrRacks, p \in DefaultParams : drawRackEntry(rk, p)

SpecAttr == InitAttr /\ [][NextRack]_vars

----------------------------------------------------------------------------
(* buildSVG, one call per step                                             *)

InitBuild ==
  /\ PageIdle /\ RackIdle
  /\ racks \in RackSets
  /\ parameters \in ParameterSets
  /\ result = [called |-> FALSE]

\* lines 76-143
BuildSVGCall ==
  /\ ~result.called
  /\ result' = buildSVG(racks, parameters)
  /\ UNCHANGED <<racks, parameters, pageVars, rackVars>>

NextBuild == BuildSVGCall

SpecBuild == InitBuild /\ [][NextBuild]_vars

----------------------------------------------------------------------------
(* The page: one step per event handler                                    *)

\* the page as served: the editor holds some text, nothing has run
Init ==
  /\ BuildIdle /\ RackIdle
  /\ page = "unloaded"
  /\ editorValue \in EditorTexts
  /\ preview = <<>>
  /\ trace = <<>>
  /\ outcome = [raised |-> "", uncaught |-> ""]
  /\ logged = "none"
  /\ image = [loading |-> FALSE]
  /\ download = [filename |-> ""]

\* lines 239-249: builder(editor) on the text raw.  An error raised in the try
\* block reaches the catch block, whose console.err is not a function: the
\* TypeError leaves builder uncaught.
builder(raw, first) ==
  \E c \in {compile(raw)} :
    /\ trace' = first \o <<"builder">> \o c.calls
    /\ IF c.threw = ""
         THEN /\ preview' = <<c.svg>>
              /\ outcome' = [raised |-> "", uncaught |-> ""]
         ELSE /\ preview' = preview
              /\ outcome' = [raised |-> c.threw,
                             uncaught |-> "TypeError: console.err is not a function"]
    /\ UNCHANGED <<logged, image, download>>

\* lines 251-260: the buttons are wired only when builder(editor) returned
DOMContentLoaded ==
  /\ page = "unloaded"
  /\ builder(editorValue, <<"DOMContentLoaded">>)
  /\ page' = IF outcome'.uncaught = "" THEN "wired" ELSE "editing"
  /\ UNCHANGED <<editorValue, buildVars, rackVars>>

\* line 254: the user edits the text, the session's change event runs builder
EditorChange ==
  /\ page \in {"editing", "wired"}
  /\ \E raw \in EditorTexts :
       /\ raw # editorValue
       /\ editorValue' = raw
       /\ builder(raw, <<"change">>)
  /\ UNCHANGED <<page, buildVars, rackVars>>

\* lines 263-278: exportSVG(editor), through toSVG and downloadFile
ClickExportSVG ==
  /\ page = "wired"
  /\ \E c \in {compile(editorValue)} :
       /\ IF c.threw = ""
            THEN /\ trace' = <<"exportSVG", "toSVG">> \o c.calls \o <<"downloadFile">>
                 /\ download' = [filename |-> "rack.svg", content |-> c.svg]
                 /\ logged' = logged
            ELSE /\ trace' = <<"exportSVG", "toSVG">> \o c.calls
                 /\ download' = download
                 /\ logged' = c.threw
       /\ outcome' = [raised |-> c.threw, uncaught |-> ""]
  /\ UNCHANGED <<page, editorValue, preview, image, buildVars, rackVars>>

\* lines 281-311: exportPNG(editor), up to image.src = url
ClickExportPNG ==
  /\ page = "wired"
  /\ \E c \in {compile(editorValue)} :
       /\ trace' = <<"exportPNG">> \o c.calls
       /\ IF c.threw = ""
            THEN /\ image' = [loading |-> TRUE, content |-> c.svg]
                 /\ logged' = logged
            ELSE /\ image' = image
                 /\ logged' = c.threw
       /\ outcome' = [raised |-> c.threw, uncaught |-> ""]
  /\ UNCHANGED <<page, editorValue, preview, download, buildVars, rackVars>>

\* lines 297-303
ImageOnload ==
  /\ page # "left" /\ image.loading
  /\ trace' = <<"image.onload", "downloadFile">>
  /\ download' = [filename |-> "rack.png", content |-> image.content]
  /\ image' = [loading |-> FALSE]
  /\ outcome' = [raised |-> "", uncaught |-> ""]
  /\ UNCHANGED <<page, editorValue, preview, logged, buildVars, rackVars>>

\* lines 305-307
ImageOnerror ==
  /\ page # "left" /\ image.loading
  /\ trace' = <<"image.onerror">>
  /\ logged' = "cant load blob image"
  /\ image' = [loading |-> FALSE]
  /\ outcome' = [raised |-> "", uncaught |-> ""]
  /\ UNCHANGED <<page, editorValue, preview, download, buildVars, rackVars>>

\* line 259: the page is left for /syntax.html
ClickHelpSyntax ==
  /\ page = "wired"
  /\ page' = "left"
  /\ trace' = <<"help-syntax">>
  /\ outcome' = [raised |-> "", uncaught |-> ""]
  /\ UNCHANGED <<editorValue, preview, logged, image, download, buildVars, rackVars>>

Next ==
  \/ DOMContentLoaded
  \/ EditorChange
  \/ ClickExportSVG
  \/ ClickExportPNG
  \/ ImageOnload
  \/ ImageOnerror
  \/ ClickHelpSyntax

Spec == Init /\ [][Next]_vars

----------------------------------------------------------------------------
(* Reading a layout back: what the properties below measure                *)

RECURSIVE Decimal(_)
Decimal(s) ==
  IF s = <<>> THEN 0 ELSE 10 * Decimal(SubSeq(s, 1, Len(s) - 1)) + (s[Len(s)] - 48)

\* twice the number an attribute value such as "275", "-25" or "12.5" denotes
ReadTwice(s) ==
  LET neg  == s[1] = 45
      body == IF neg THEN Tail(s) ELSE s
      frac == Len(body) >= 2 /\ body[Len(body) - 1] = 46
      whole == IF frac THEN SubSeq(body, 1, Len(body) - 2) ELSE body
      v    == 2 * Decimal(whole) + (IF frac THEN 1 ELSE 0)
  IN  IF neg THEN -v ELSE v

Px2(el, name) == ReadTwice(el.attrs[name])

\* the elements of one type in a group, in document order, links looked into
RECURSIVE ElementsOf(_, _)
ElementsOf(d, type) ==
  IF d = <<>> THEN <<>>
  ELSE LET e == Head(d)
       IN  (IF e.type = type THEN <<e>> ELSE <<>>)
           \o (IF e.type = "a" THEN ElementsOf(e.children, type) ELSE <<>>)
           \o ElementsOf(Tail(d), type)

\* the rectangles of the devices: every rectangle but the first, the rack body
DeviceRects(d) == Tail(ElementsOf(d, "rect"))

\* the labels of the devices: every text but the rack's name
DeviceLabels(d, rk) ==
  IF TruthyText(rk, "name") THEN Tail(ElementsOf(d, "text")) ELSE ElementsOf(d, "text")

\* the slots in the order drawRack is to process them: last declared first
Processed(k) == rack.children[Len(rack.children) + 1 - k]

IsDevice(n) == n.tagName # "gap"

DevicesAmong(k) == Cardinality({j \in 1..k : IsDevice(Processed(j))})

\* the height a slot declares, in units (1 when it declares none)
DeclaredHeight(n) == IF hasAttribute(n, "height") THEN Decimal(n.height) ELSE 1

RECURSIVE HeightsBefore(_)
HeightsBefore(k) ==
  IF k <= 1 THEN 0 ELSE HeightsBefore(k - 1) + DeclaredHeight(Processed(k - 1))

UnitPx   == params.unitHeight.twice \div 2
MarginPx == params.margin.twice \div 2
WidthPx  == params.rackWidth.twice \div 2
RackUnits == Decimal(params.rackHeight)
BottomPx == MarginPx + RackUnits * UnitPx

----------------------------------------------------------------------------
(* C1: drawRack walks the slots in reverse declaration order with a cursor  *)
(* that starts at 0; a slot without at is placed at offset = cursor, a slot *)
(* with at = k at offset k - 1 whatever the cursor; after every slot        *)
(* (device or gap) the cursor is offset + height; a device gets the         *)
(* rectangle x = 0, width = rackWidth, height = height * unitHeight,        *)
(* y = rackBottomY - (offset + height) * unitHeight.                        *)
C1_CursorAndRectangle ==
  [][ /\ (idx = 0 => currentNode = Num(0))
      /\ (idx' = idx + 1 =>
           LET node == rack.children[Len(rack.children) - idx]
               h    == DeclaredHeight(node)
               off  == IF hasAttribute(node, "at")
                         THEN Decimal(node.at) - 1
                         ELSE currentNode.twice \div 2
               rs   == ElementsOf(dom', "rect")
               r    == rs[Len(rs)]
           IN  /\ currentNode' = Num(off + h)
               /\ (~IsDevice(node) => dom' = dom)
               /\ (IsDevice(node) =>
                     /\ Len(rs) = Len(ElementsOf(dom, "rect")) + 1
                     /\ Px2(r, "x") = 0
                     /\ Px2(r, "width") = 2 * WidthPx
                     /\ Px2(r, "height") = 2 * h * UnitPx
                     /\ Px2(r, "y") = 2 * (BottomPx - (off + h) * UnitPx)))
    ]_vars

\* a device with at="5" and height="2" has been placed at
\* rackBottomY - 6 * unitHeight, and an auto-placed device after it at unit 6
C1_Witness ==
  /\ idx >= 2
  /\ IsDevice(Processed(idx - 1)) /\ hasAttribute(Processed(idx - 1), "at")
  /\ Processed(idx - 1).at = <<53>> /\ Processed(idx - 1).height = <<50>>
  /\ IsDevice(Processed(idx)) /\ ~hasAttribute(Processed(idx), "at")
  /\ LET rs == DeviceRects(dom)
     IN  /\ Px2(rs[Len(rs) - 1], "y") = 2 * (BottomPx - 6 * UnitPx)
         /\ Px2(rs[Len(rs)], "y")
              = 2 * (BottomPx - (6 + DeclaredHeight(Processed(idx))) * UnitPx)

----------------------------------------------------------------------------
LoneUnitDevice ==
  /\ pc = "returned"
  /\ Len(rack.children) = 1
  /\ IsDevice(rack.children[1])
  /\ ~hasAttribute(rack.children[1], "at")
  /\ DeclaredHeight(rack.children[1]) = 1

(* C5 as stated: for a rack of any height holding exactly one slot, a       *)
(* device with height 1 and no at, the rectangle's top edge is margin and   *)
(* its bottom edge is margin + unitHeight.                                  *)
C5_TopAtMargin ==
  LoneUnitDevice =>
    LET r == DeviceRects(dom)[1]
    IN  /\ Px2(r, "y") = 2 * MarginPx
        /\ Px2(r, "y") + Px2(r, "height") = 2 * (MarginPx + UnitPx)

(* C5 amended: the device occupies the lowest unit of the rack: its bottom  *)
(* edge is margin + rackHeight * unitHeight and its top edge one unitHeight *)
(* above that (margin + (rackHeight - 1) * unitHeight).                     *)
C5_BottomUnit ==
  LoneUnitDevice =>
    LET r == DeviceRects(dom)[1]
    IN  /\ Px2(r, "y") = 2 * (MarginPx + (RackUnits - 1) * UnitPx)
        /\ Px2(r, "y") + Px2(r, "height") = 2 * (MarginPx + RackUnits * UnitPx)

C5_Witness == LoneUnitDevice /\ RackUnits > 1

----------------------------------------------------------------------------
WithoutSlot(rk, i) ==
  [rk EXCEPT !.children =
     SubSeq(rk.children, 1, i - 1) \o SubSeq(rk.children, i + 1, Len(rk.children))]

\* the place, among the device rectangles, of the device declared j-th
RectIndex(j) ==
  Cardinality({m \in j..Len(rack.children) : IsDevice(rack.children[m])})

GapBetweenAuto(i) ==
  /\ ~IsDevice(rack.children[i]) /\ ~hasAttribute(rack.children[i], "at")
  /\ IsDevice(rack.children[i - 1]) /\ ~hasAttribute(rack.children[i - 1], "at")
  /\ IsDevice(rack.children[i + 1]) /\ ~hasAttribute(rack.children[i + 1], "at")

(* C6: a gap adds no primitive to the group, which holds one rectangle and  *)
(* one label per device processed besides the rack body (and one link per   *)
(* device with an href); a gap of height g without at between two           *)
(* auto-placed devices moves the rectangle of the device declared above it  *)
(* up by g * unitHeight compared with the layout without the gap and leaves *)
(* the rectangle of the device declared below it as it is.                  *)
C6_GapAdvancesOnly ==
  /\ Len(DeviceRects(dom)) = DevicesAmong(idx)
  /\ Len(DeviceLabels(dom, rack)) = DevicesAmong(idx)
  /\ Len(ElementsOf(dom, "a"))
       = Cardinality({j \in 1..idx : IsDevice(Processed(j))
                                      /\ TruthyText(Processed(j), "href")})
  /\ pc = "returned" =>
       \A i \in 2..(Len(rack.children) - 1) :
         GapBetweenAuto(i) =>
           LET with    == DeviceRects(dom)
               without == DeviceRects(drawRack(WithoutSlot(rack, i), params).children)
               g       == DeclaredHeight(rack.children[i])
               above   == RectIndex(i - 1)
               below   == RectIndex(i + 1)
           IN  /\ Len(with) = Len(without)
               /\ Px2(with[above], "y") = Px2(without[above], "y") - 2 * g * UnitPx
               /\ with[above] = [without[above] EXCEPT !.attrs.y = with[above].attrs.y]
               /\ with[below] = without[below]

C6_Witness ==
  /\ pc = "returned"
  /\ Len(rack.children) = 3
  /\ GapBetweenAuto(2)
  /\ DeclaredHeight(rack.children[2]) = 2
  /\ Len(DeviceRects(dom)) = 2

----------------------------------------------------------------------------
AllAuto ==
  \A i \in 1..Len(rack.children) :
    /\ ~hasAttribute(rack.children[i], "at")
    /\ DeclaredHeight(rack.children[i]) > 0

(* C10: in a rack whose slots all lack at and have positive heights, the    *)
(* cursor is the sum of the heights of the slots processed so far; the      *)
(* last-declared slot starts at the rack bottom, every further slot starts  *)
(* where the one processed before it ends, and no two device rectangles     *)
(* overlap.                                                                 *)
C10_CursorContinuity ==
  AllAuto =>
    /\ currentNode = Num(HeightsBefore(idx + 1))
    /\ \A k \in 1..idx :
         IsDevice(Processed(k)) =>
           LET r == DeviceRects(dom)[DevicesAmong(k)]
           IN  /\ Px2(r, "y") + Px2(r, "height")
                    = 2 * (BottomPx - HeightsBefore(k) * UnitPx)
               /\ Px2(r, "height") = 2 * DeclaredHeight(Processed(k)) * UnitPx
    /\ LET rs == DeviceRects(dom)
       IN  \A a, b \in 1..Len(rs) :
             a < b =>
               \/ Px2(rs[a], "y") + Px2(rs[a], "height") <= Px2(rs[b], "y")
               \/ Px2(rs[b], "y") + Px2(rs[b], "height") <= Px2(rs[a], "y")

C10_Witness ==
  /\ AllAuto
  /\ idx = 3
  /\ IsDevice(Processed(1)) /\ ~IsDevice(Processed(2)) /\ IsDevice(Processed(3))
  /\ DeclaredHeight(Processed(1)) = 2
  /\ currentNode = Num(2 + DeclaredHeight(Processed(2)) + DeclaredHeight(Processed(3)))

----------------------------------------------------------------------------
KnownKinds ==
  {"ups", "pdu", "firewall", "switch", "blank", "patch", "cables", "server", "san"}

ExpectedFill(n) ==
  IF hasAttribute(n, "color") /\ n.color # "" THEN n.color
  ELSE IF n.tagName \in KnownKinds THEN DEFAULT_COLORS_OWN[n.tagName]
  ELSE "white"

(* C7: the fill of a device's rectangle is its color attribute when it has  *)
(* one; otherwise the default-table colour of its tag when the tag is one   *)
(* of ups, pdu, firewall, switch, blank, patch, cables, server, san;        *)
(* otherwise "white", for every other tag name whatsoever.                  *)
C7_FillPrecedence ==
  \A k \in 1..idx :
    IsDevice(Processed(k)) =>
      DeviceRects(dom)[DevicesAmong(k)].attrs.fill = ExpectedFill(Processed(k))

----------------------------------------------------------------------------
IsPositiveInteger(s) ==
  /\ s # <<>>
  /\ \A i \in 1..Len(s) : s[i] \in 48..57
  /\ Decimal(s) > 0

Stated(n, name) == hasAttribute(n, name) /\ IsPositiveInteger(n[name])

(* C8: a height or at that is not a positive integer (absent, empty,        *)
(* non-numeric, zero, negative, or a number followed by other characters)   *)
(* is treated as absent: the height is then 1 and the slot is placed at the *)
(* cursor, so every device rectangle is at least unitHeight high and no     *)
(* offset below 0 is used.                                                  *)
C8_MalformedIsAbsent ==
  [][ idx' = idx + 1 =>
        LET node == rack.children[Len(rack.children) - idx]
            h    == IF Stated(node, "height") THEN Decimal(node.height) ELSE 1
            off  == IF Stated(node, "at")
                      THEN Decimal(node.at) - 1
                      ELSE currentNode.twice \div 2
            rs   == ElementsOf(dom', "rect")
            r    == rs[Len(rs)]
        IN  /\ off >= 0
            /\ currentNode' = Num(off + h)
            /\ (IsDevice(node) =>
                  /\ Px2(r, "height") = 2 * h * UnitPx
                  /\ Px2(r, "height") >= 2 * UnitPx
                  /\ Px2(r, "y") = 2 * (BottomPx - (off + h) * UnitPx))
    ]_vars

----------------------------------------------------------------------------
(* Reading a document back                                                 *)

Supplied(name, default) ==
  IF hasAttribute(parameters, name) THEN parameters[name].twice \div 2 ELSE default

IsDecimalString(str) ==
  str # <<>> /\ \A i \in 1..Len(str) : str[i] \in 48..57

AllHeightsNumeric ==
  \A i \in 1..Len(racks.children) :
    /\ hasAttribute(racks.children[i], "height")
    /\ IsDecimalString(racks.children[i].height)

Returned == result.called /\ result.threw = ""

TallestRack ==
  CHOOSE h \in {Decimal(racks.children[i].height) : i \in 1..Len(racks.children)} :
    \A i \in 1..Len(racks.children) : Decimal(racks.children[i].height) <= h

\* the groups of the racks: the children of the svg after the style element
Groups == Tail(result.svg.children)

----------------------------------------------------------------------------
(* C2: when there is at least one rack and every rack has a numeric height, *)
(* the svg height is 2 * margin + unitHeight * H, H the numeric maximum of  *)
(* the heights, whatever the order of the racks and the number of digits;   *)
(* so every rack body ends at or above canvasHeight - margin.               *)
C2_CanvasHeightFromTallest ==
  (result.called /\ Len(racks.children) >= 1 /\ AllHeightsNumeric) =>
    /\ Returned
    /\ ReadTwice(result.svg.attrs.height)
         = 2 * (2 * Supplied("margin", 25) + Supplied("unitHeight", 25) * TallestRack)
    /\ \A i \in 1..Len(Groups) :
         LET body == ElementsOf(Groups[i].children, "rect")[1]
         IN  Px2(body, "y") + Px2(body, "height")
               <= ReadTwice(result.svg.attrs.height) - 2 * Supplied("margin", 25)

----------------------------------------------------------------------------
(* C3: for every well-formed rack set buildSVG raises no error and returns  *)
(* a document, also when a rack omits height or gives an empty or           *)
(* non-numeric one.                                                         *)
C3_NeverRaises ==
  result.called => (result.threw = "" /\ result.svg.type = "svg")

----------------------------------------------------------------------------
(* C9: whenever buildSVG returns a document for rackCount >= 0 racks, the   *)
(* svg's width attribute is 2 * margin + rackCount * rackWidth              *)
(* + (rackCount - 1) * rackSpacing, each of margin, rackWidth, rackSpacing  *)
(* being the supplied value or its default 25, 300, 25.                     *)
C9_CanvasWidth ==
  Returned =>
    ReadTwice(result.svg.attrs.width)
      = 2 * (2 * Supplied("margin", 25)
             + Len(racks.children) * Supplied("rackWidth", 300)
             + (Len(racks.children) - 1) * Supplied("rackSpacing", 25))

\* two racks, the spacing supplied and the margin defaulted
C9_Witness ==
  /\ Returned
  /\ Len(racks.children) = 2
  /\ hasAttribute(parameters, "rackSpacing") /\ ~hasAttribute(parameters, "margin")
  /\ result.svg.attrs.width = <<50, 53, 53>>

----------------------------------------------------------------------------
Entered(t, f) == \E i \in 1..Len(t) : t[i] = f

IsCompileCall(t) ==
  Entered(t, "builder") \/ Entered(t, "toSVG") \/ Entered(t, "exportPNG")

(* C4: when the text is not well-formed, parseRackML fails with "Failed to  *)
(* parse input" and returns no tree; in that compile call (builder, toSVG,  *)
(* exportPNG) buildSVG and drawRack are never entered, no document is       *)
(* produced and the preview pane keeps the content it had before the call.  *)
C4_ParseErrorStopsCompile ==
  [][ (IsCompileCall(trace') /\ ~editorValue'.wellFormed) =>
        /\ Entered(trace', "parseRackML")
        /\ outcome'.raised = "Failed to parse input"
        /\ ~Entered(trace', "buildSVG")
        /\ ~Entered(trace', "drawRack")
        /\ ~Entered(trace', "downloadFile")
        /\ preview' = preview
        /\ download' = download
        /\ image' = image
    ]_vars

\* an export of a text that is not well-formed, while the preview still shows
\* the document of an earlier text
C4_Witness ==
  /\ Entered(trace, "exportPNG")
  /\ ~editorValue.wellFormed
  /\ outcome.raised = "Failed to parse input"
  /\ logged = "Failed to parse input"
  /\ preview # <<>>

====
